---- MODULE Spec2Model ----
(***************************************************************************)
(* Model of docker/cloud_run_entrypoint.sh: the Cloud Run entrypoint that  *)
(* fetches remote config and handler files into CONFIG_DIR, optionally     *)
(* after a Backblaze B2 authorization, and then execs the production       *)
(* entrypoint.                                                             *)
(*                                                                         *)
(* Shell strings are sequences of atoms.  An atom is a piece of text that  *)
(* no pattern of the script cuts in two: "/" , "=" , ":" and the letters   *)
(* of a variable-name suffix are atoms of their own, the literal           *)
(* "backblazeb2.com" is one atom, and so is each variable-name prefix.     *)
(* The empty string is << >>.                                              *)
(***************************************************************************)
EXTENDS Integers, Sequences, FiniteSets, TLC

VARIABLES
    CONFIG_DIR,                 \* shell variable, line 39
    AUTH_HEADER,                \* environment; unset and empty are the same to [ -n ]
    BACKBLAZE_KEY_ID,           \* shell variable, line 41
    BACKBLAZE_APPLICATION_KEY,  \* shell variable, line 42
    BACKBLAZE_AUTH_HEADER,      \* shell variable, lines 43 and 91
    BACKBLAZE_DOWNLOAD_URL,     \* shell variable, lines 44 and 84
    LITELLM_CONFIG_URL,         \* environment; {} when unset, {v} when set to v
    PYTHONPATH,                 \* environment; {} when unset, {v} when set to v
    startPYTHONPATH,            \* history: PYTHONPATH as the script found it
    environ,                    \* the CONFIG_URL_* and HANDLER_URL_* variables: name -> value
    pc,                         \* the statement the script is at
    exitCode,                   \* exit status of the script once pc = "exited"
    consumed,                   \* lines of `env | grep` the while loops have read
    dirUsable,                  \* CONFIG_DIR exists and can be written
    files,                      \* files written into CONFIG_DIR: path -> URL whose body it holds
    httpLog,                    \* every curl invocation of the run, in order: what it
                                \* asked for, what came of it, and for the
                                \* authorization call the body it printed
    now,                        \* dashboard: Date.now(), in milliseconds
    lastErrorTime,              \* dashboard: the module variable a of the chunk
    waiting,                    \* dashboard: the t of each handleError call that is
                                \* in its await sleep(3000), in the order they began
    notices,                    \* dashboard: the t of each "UI Session Expired.
                                \* Logging out." notice shown, in order
    tokenCookie,                \* dashboard: document.cookie's token, "set" or "cleared"
    location,                   \* dashboard: window.location.href
    pageAlive,                  \* dashboard: the document still runs its scripts
    lastHandled,                \* history: the t of the last error that was not
                                \* suppressed, 0 when there was none
    arrived,                    \* history: number of handleError calls so far
    ticks                       \* history: number of times the clock was advanced

vars == <<CONFIG_DIR, AUTH_HEADER, BACKBLAZE_KEY_ID, BACKBLAZE_APPLICATION_KEY,
          BACKBLAZE_AUTH_HEADER, BACKBLAZE_DOWNLOAD_URL, LITELLM_CONFIG_URL,
          PYTHONPATH, startPYTHONPATH, environ, pc, exitCode, consumed, dirUsable, files, httpLog,
          now, lastErrorTime, waiting, notices, tokenCookie, location,
          pageAlive, lastHandled, arrived, ticks>>

\* the variables of the entrypoint script
script == <<CONFIG_DIR, AUTH_HEADER, BACKBLAZE_KEY_ID, BACKBLAZE_APPLICATION_KEY,
            BACKBLAZE_AUTH_HEADER, BACKBLAZE_DOWNLOAD_URL, LITELLM_CONFIG_URL,
            PYTHONPATH, startPYTHONPATH, environ, pc, exitCode, consumed,
            dirUsable, files, httpLog>>

\* the variables of the dashboard's page
dashboard == <<now, lastErrorTime, waiting, notices, tokenCookie, location,
               pageAlive, lastHandled, arrived, ticks>>

(***************************************************************************)
(* Bounds of the model.                                                    *)
(***************************************************************************)
\* number of CONFIG_URL_* / HANDLER_URL_* variables present in the environment
MaxVars == 2

\* number of failing API calls that reach the dashboard's error handler
MaxErrors == 4

\* number of times the dashboard's clock is advanced
MaxTicks == 4

(***************************************************************************)
(* Text the script names.                                                  *)
(***************************************************************************)
DefaultConfigDir == <<"/app/config">>

ConfigPrefix == "CONFIG_URL_"

HandlerPrefix == "HANDLER_URL_"

YamlSuffix == <<".", "y", "a", "m", "l">>

HandlerSuffix == <<"_", "h", "a", "n", "d", "l", "e", "r", ".", "p", "y">>

ConfigYaml == <<"c", "o", "n", "f", "i", "g", ".", "y", "a", "m", "l">>

BackblazeDomain == "backblazeb2.com"

AuthorizationPrefix == <<"Authorization: ">>

\* tr's [:upper:] and [:lower:] classes, in collating order
Upper == <<"A", "B", "C", "D", "E", "F", "G", "H", "I", "J", "K", "L", "M",
           "N", "O", "P", "Q", "R", "S", "T", "U", "V", "W", "X", "Y", "Z">>

Lower == <<"a", "b", "c", "d", "e", "f", "g", "h", "i", "j", "k", "l", "m",
           "n", "o", "p", "q", "r", "s", "t", "u", "v", "w", "x", "y", "z">>

(***************************************************************************)
(* Shell primitives.                                                       *)
(***************************************************************************)
\* "$X" for a variable that may be unset: the value, or the empty string
Expand(opt) == IF opt = {} THEN << >> ELSE CHOOSE v \in opt : TRUE

\* ${A:-${B:-}}: A unless it is unset or empty, else B (lines 41-42)
ResolveAlias(a, b) == IF Expand(a) # << >> THEN Expand(a) ELSE Expand(b)

\* ${X:-default} (line 39)
DefaultTo(opt, default) == IF Expand(opt) # << >> THEN Expand(opt) ELSE default

\* ${s#pattern} for a literal pattern: s without that prefix, or s unchanged
RemovePrefix(s, pattern) ==
    IF Len(s) >= Len(pattern) /\ SubSeq(s, 1, Len(pattern)) = pattern
    THEN SubSeq(s, Len(pattern) + 1, Len(s))
    ELSE s

\* tr '[:upper:]' '[:lower:]' on one character
TrChar(c) ==
    IF \E i \in 1..Len(Upper) : Upper[i] = c
    THEN Lower[CHOOSE i \in 1..Len(Upper) : Upper[i] = c]
    ELSE c

\* a pipeline that lacks the tr
TrNothing(s) == s

\* tr '[:upper:]' '[:lower:]'
TrLower(s) == [i \in 1..Len(s) |-> TrChar(s[i])]

\* sed 's/^PREFIX//' : the prefix is removed only at the start of the line
SedStripPrefix(s, prefix) ==
    IF Len(s) >= 1 /\ s[1] = prefix THEN Tail(s) ELSE s

\* a shell without set -e goes on after a failed command
NoErrExit(status) == FALSE

\* set -e (line 2): a command that fails outside a condition ends the shell
ErrExit(status) == status # 0

(***************************************************************************)
(* curl exit statuses with -f.                                             *)
(***************************************************************************)
CurlOk == 0

CurlCouldNotConnect == 7

CurlHttpError == 22

CurlWriteError == 23

\* curl without -f: an HTTP error is no failure
CurlExitWithoutF(outcome) ==
    CASE outcome = "ok" -> CurlOk
      [] outcome = "http_error" -> CurlOk
      [] outcome = "transport_error" -> CurlCouldNotConnect
      [] outcome = "write_error" -> CurlWriteError

CurlExit(outcome) ==
    CASE outcome = "ok" -> CurlOk
      [] outcome = "http_error" -> CurlHttpError
      [] outcome = "transport_error" -> CurlCouldNotConnect
      [] outcome = "write_error" -> CurlWriteError

\* what a download can do: it cannot succeed into a directory that is not usable
CurlOutcomes(usable) ==
    IF usable
    THEN {"ok", "http_error", "transport_error", "write_error"}
    ELSE {"http_error", "transport_error", "write_error"}

(***************************************************************************)
(* extract_json_field (lines 50-54).  A payload is the sequence of the     *)
(* members of the JSON object; str says whether the member's value is a    *)
(* JSON string.  The sed pattern starts with a greedy .* , so it matches   *)
(* the last member "field" : "..." of the flattened payload, and prints    *)
(* nothing when there is none.                                             *)
(***************************************************************************)
\* the same with a sed that lacks -n: a payload the pattern does not match
\* is printed as it is
extract_json_field_without_n(json_payload, field_name) ==
    LET hits == {i \in 1..Len(json_payload) :
                    json_payload[i].key = field_name /\ json_payload[i].str}
    IN  IF hits = {} THEN [i \in 1..Len(json_payload) |-> json_payload[i].key]
        ELSE json_payload[CHOOSE i \in hits : \A j \in hits : j <= i].val

extract_json_field(json_payload, field_name) ==
    LET hits == {i \in 1..Len(json_payload) :
                    json_payload[i].key = field_name /\ json_payload[i].str}
    IN  IF hits = {} THEN << >>
        ELSE json_payload[CHOOSE i \in hits : \A j \in hits : j <= i].val

(***************************************************************************)
(* is_backblaze_url (lines 57-72), with BACKBLAZE_DOWNLOAD_URL passed in.  *)
(***************************************************************************)
\* case "$url" in *backblazeb2.com/*)
MatchesBackblazeGlob(url) ==
    \E i \in 1..(Len(url) - 1) : url[i] = BackblazeDomain /\ url[i + 1] = "/"

\* the same with the download URL itself taken for a URL under it
is_backblaze_url_or_equal(url, download_url) ==
    \/ /\ download_url # << >>
       /\ \/ url = download_url
          \/ RemovePrefix(url, download_url \o <<"/">>) # url
    \/ MatchesBackblazeGlob(url)

\* the same with ${url#"$BACKBLAZE_DOWNLOAD_URL"}, the "/" left out
is_backblaze_url_bare_prefix(url, download_url) ==
    \/ /\ download_url # << >>
       /\ RemovePrefix(url, download_url) # url
    \/ MatchesBackblazeGlob(url)

is_backblaze_url(url, download_url) ==
    \/ /\ download_url # << >>
       /\ RemovePrefix(url, download_url \o <<"/">>) # url
    \/ MatchesBackblazeGlob(url)

(***************************************************************************)
(* fetch_file (lines 95-106): the -H arguments of the curl it runs.        *)
(***************************************************************************)
\* the same with the Backblaze test made first
fetch_file_headers_b2_first(url, auth_header, backblaze_auth_header, download_url) ==
    IF backblaze_auth_header # << >> /\ is_backblaze_url(url, download_url)
    THEN {backblaze_auth_header}
    ELSE IF auth_header # << >> THEN {auth_header} ELSE {}

fetch_file_headers(url, auth_header, backblaze_auth_header, download_url) ==
    IF auth_header # << >>
    THEN {auth_header}
    ELSE IF backblaze_auth_header # << >> /\ is_backblaze_url(url, download_url)
         THEN {backblaze_auth_header}
         ELSE {}

(***************************************************************************)
(* env | grep '^PREFIX' | while IFS='=' read -r name url (lines 114, 124). *)
(***************************************************************************)
\* the line env prints for a variable
EnvLine(name, value) == name \o <<"=">> \o value

\* the lines env prints for the CONFIG_URL_* and HANDLER_URL_* variables
EnvOutput == {EnvLine(n, environ[n]) : n \in DOMAIN environ}

\* grep '^PREFIX'
Grep(lines, prefix) == {l \in lines : Len(l) >= 1 /\ l[1] = prefix}

\* IFS='=' read -r name url: name is the text before the first "=", url is
\* the rest; a rest that holds a single "=", as its last character, loses it
ReadNameUrl(line) ==
    LET eqs  == {i \in 1..Len(line) : line[i] = "="}
        cut  == IF eqs = {} THEN Len(line) + 1
                ELSE CHOOSE i \in eqs : \A j \in eqs : i <= j
        rest == SubSeq(line, cut + 1, Len(line))
        more == {i \in 1..Len(rest) : rest[i] = "="}
    IN  [name |-> SubSeq(line, 1, cut - 1),
         url  |-> IF more = {Len(rest)} /\ Len(rest) >= 1
                  THEN SubSeq(rest, 1, Len(rest) - 1)
                  ELSE rest]

\* suffix=$(echo "$name" | sed 's/^PREFIX//' | tr '[:upper:]' '[:lower:]')
\* filename="${suffix}.yaml" or "${suffix}_handler.py" (lines 117-118, 127-128)
DestFilename(name, prefix, ending) ==
    TrLower(SedStripPrefix(name, prefix)) \o ending

\* the file name glued to the directory with no slash between them
DestPathBeside(dir, filename) == dir \o filename

\* "$CONFIG_DIR/$filename"
DestPath(dir, filename) == dir \o <<"/">> \o filename

(***************************************************************************)
(* The environments the model starts the script in.                        *)
(***************************************************************************)
\* downloadUrl of the authorization response
DownloadUrl == <<"https://dl">>

UrlPlain == <<"https://x", "/", "a">>

UrlBackblaze == <<"https://f0.", "backblazeb2.com", "/", "a">>

UrlDownload == <<"https://dl", "/", "a">>

UrlLookalike == <<"https://dl", ".evil", "/", "a">>

UrlDomainOnly == <<"https://x", "/", "?q", "=", "backblazeb2.com">>

UrlDownloadBase == <<"https://dl">>

\* a value that is no URL: read splits it away and leaves an empty url
ValueEquals == <<"=">>

BasicUrls == {UrlPlain, UrlBackblaze}

AllUrls == {UrlPlain, UrlBackblaze, UrlDownload, UrlLookalike, UrlDomainOnly,
            UrlDownloadBase, ValueEquals}

ConfigNames == {<<"CONFIG_URL_", "T", "e">>,
                <<"CONFIG_URL_", "t", "E">>,
                <<"CONFIG_URL_", "C", "O", "N", "F", "I", "G">>}

HandlerNames == {<<"HANDLER_URL_", "M", "_", "1">>}

\* a variable that is unset, set to the empty string, or set to one of vals
Optional(vals) == {{}} \cup {{v} : v \in vals \cup {<< >>}}

ExplicitHeader == <<"X-Auth: s">>

AuthToken == <<"t1">>

TokenMember == [key |-> "authorizationToken", str |-> TRUE, val |-> AuthToken]

EmptyTokenMember == [key |-> "authorizationToken", str |-> TRUE, val |-> << >>]

NullTokenMember == [key |-> "authorizationToken", str |-> FALSE, val |-> << >>]

DownloadMember == [key |-> "downloadUrl", str |-> TRUE, val |-> DownloadUrl]

\* bodies the authorization endpoint can answer with
AuthResponses == {<< >>,
                  <<TokenMember>>,
                  <<DownloadMember, TokenMember>>,
                  <<DownloadMember>>,
                  <<EmptyTokenMember, DownloadMember>>,
                  <<NullTokenMember>>}

NoFiles == [p \in {} |-> << >>]

(***************************************************************************)
(* The dashboard's error handler (src/unnamed/part_000, line 1: the module *)
(* variable a, the functions n and s of the chunk, which the dashboard's   *)
(* source calls lastErrorTime, sleep and handleError).                     *)
(***************************************************************************)
\* t - a > 6e4
Throttle == 60000

\* await n(3e3)
LogoutDelay == 3000

\* let a = 0
LastErrorTimeAtLoad == 0

\* Date.now() when the page is loaded: any instant in this century is more
\* than one throttle period after the epoch
PageLoadTime == 2 * Throttle

\* the page the dashboard is open at
DashboardUrl == "/ui"

\* the page once the chunk has been evaluated and no API call has failed yet
PageLoaded ==
    /\ now = PageLoadTime
    /\ lastErrorTime = LastErrorTimeAtLoad
    /\ waiting = << >>
    /\ notices = << >>
    /\ tokenCookie = "set"
    /\ location = DashboardUrl
    /\ pageAlive = TRUE
    /\ lastHandled = 0
    /\ arrived = 0
    /\ ticks = 0

\* a header found in the environment and left as it is
BackblazeAuthHeaderInherited == AuthorizationPrefix \o AuthToken

\* BACKBLAZE_AUTH_HEADER="" (line 43): whatever the environment held is dropped
BackblazeAuthHeaderAtStart == << >>

(***************************************************************************)
(* The state after lines 39-44, for an environment whose URLs come from    *)
(* urls, whose CONFIG_URL_* / HANDLER_URL_* names come from names, and     *)
(* whose CONFIG_DIR and PYTHONPATH come from dirs and paths.               *)
(***************************************************************************)
InitWith(urls, names, dirs, paths) ==
    /\ \E dir \in dirs : CONFIG_DIR = DefaultTo(dir, DefaultConfigDir)
    /\ AUTH_HEADER \in {<< >>, ExplicitHeader}
    /\ \E a \in Optional({<<"kid">>}), b \in Optional({<<"kid">>}) :
           BACKBLAZE_KEY_ID = ResolveAlias(a, b)
    /\ \E a \in Optional({<<"key">>}), b \in Optional({<<"key">>}) :
           BACKBLAZE_APPLICATION_KEY = ResolveAlias(a, b)
    /\ BACKBLAZE_AUTH_HEADER = BackblazeAuthHeaderAtStart
    /\ BACKBLAZE_DOWNLOAD_URL = << >>
    /\ LITELLM_CONFIG_URL \in Optional(urls)
    /\ PYTHONPATH \in paths
    /\ startPYTHONPATH = PYTHONPATH
    /\ \E set \in SUBSET names :
           /\ Cardinality(set) <= MaxVars
           /\ environ \in [set -> urls \cup {<< >>}]
    /\ pc = "mkdir"
    /\ exitCode = 0
    /\ consumed = {}
    /\ dirUsable = FALSE
    /\ files = NoFiles
    /\ httpLog = << >>
    /\ PageLoaded

Init ==
    InitWith(BasicUrls, ConfigNames \cup HandlerNames,
             Optional({<<"/d">>}), Optional({<<"/p">>}))

\* environments that exercise every shape of URL the header rules tell apart
InitUrls ==
    InitWith(AllUrls,
             {<<"CONFIG_URL_", "T", "e">>, <<"CONFIG_URL_", "t", "E">>,
              <<"HANDLER_URL_", "M", "_", "1">>},
             {{}}, {{}})

(***************************************************************************)
(* The script, statement by statement.                                     *)
(***************************************************************************)
\* exit 0 in the place of exit 1
ScriptSuccess == CurlOk

\* exit 1 (lines 78 and 88)
ScriptFailure == 1

\* exit status of an ls that could not list (line 136)
LsFailure == 2

\* the script with its two loops in the other order
FollowingHandlersFirst(stage) ==
    CASE stage = "mkdir" -> "authorize"
      [] stage = "authorize" -> "primary"
      [] stage = "primary" -> "handlers"
      [] stage = "handlers" -> "configs"
      [] stage = "configs" -> "list"
      [] stage = "list" -> "pythonpath"
      [] stage = "pythonpath" -> "exec"
      [] stage = "exec" -> "transferred"

\* the statement the script reaches when the one at stage is done (lines 47-143)
Following(stage) ==
    CASE stage = "mkdir" -> "authorize"
      [] stage = "authorize" -> "primary"
      [] stage = "primary" -> "configs"
      [] stage = "configs" -> "handlers"
      [] stage = "handlers" -> "list"
      [] stage = "list" -> "pythonpath"
      [] stage = "pythonpath" -> "exec"
      [] stage = "exec" -> "transferred"

\* variables no statement after line 44 assigns
settings == <<CONFIG_DIR, AUTH_HEADER, BACKBLAZE_KEY_ID,
              BACKBLAZE_APPLICATION_KEY, LITELLM_CONFIG_URL, environ,
              startPYTHONPATH, dashboard>>

\* a failed statement that is run again in the place of ending the script
ErrExitRetry(status) ==
    pc' = pc /\ exitCode' = exitCode

\* set -e (line 2) at a statement that failed with status: the script ends
\* there with that status
ErrExitNow(status) ==
    pc' = "exited" /\ exitCode' = status

\* curl -o that leaves a file already at dest alone
WriteFileNoClobber(fs, dest, body) ==
    fs @@ (dest :> body)

\* curl -o "$dest" (lines 100-104): the file at dest is created or replaced
WriteFile(fs, dest, body) ==
    (dest :> body) @@ fs

\* [ -z "$s" ] in the place of [ -n "$s" ]
TestZ(s) ==
    s = << >>

\* a test that holds of every string
TestAlways(s) ==
    TRUE

\* [ -n "$s" ] (lines 109, 116 and 126)
TestN(s) ==
    s # << >>

\* fetch_file "$url" "$dest" (lines 95-106) where curl ends with outcome, in a
\* place where set -e is in force; next is the statement after it
fetch_file(kind, name, url, dest, outcome, next) ==
    LET status == CurlExit(outcome)
        call   == [kind    |-> kind,
                   name    |-> name,
                   url     |-> url,
                   dest    |-> dest,
                   headers |-> fetch_file_headers(url, AUTH_HEADER,
                                                  BACKBLAZE_AUTH_HEADER,
                                                  BACKBLAZE_DOWNLOAD_URL),
                   outcome |-> outcome,
                   body    |-> << >>]
    IN  /\ httpLog' = Append(httpLog, call)
        /\ files' = IF status = CurlOk THEN WriteFile(files, dest, url) ELSE files
        /\ IF ErrExit(status)
           THEN ErrExitNow(status)
           ELSE pc' = next /\ exitCode' = exitCode

\* exit status of a mkdir -p that could not create the directory (line 47)
MkdirFailure == 1

\* cmd without the || true
WithoutOrTrue(status) ==
    status

\* cmd || true (line 47): the status of the list is 0 whatever cmd's was
OrTrue(status) ==
    0

\* mkdir -p "$CONFIG_DIR" 2>/dev/null || true (line 47).  When mkdir -p fails
\* there is no directory at CONFIG_DIR; when it succeeds there is one, which
\* the user the script runs as may or may not be able to write.
EnsureWorkingDirectory ==
    /\ pc = "mkdir"
    /\ UNCHANGED <<settings, BACKBLAZE_AUTH_HEADER, BACKBLAZE_DOWNLOAD_URL,
                   PYTHONPATH, consumed, files, httpLog>>
    /\ \E mkdir_status \in {0, MkdirFailure} :
           /\ dirUsable' \in IF mkdir_status = 0 THEN BOOLEAN ELSE {FALSE}
           /\ IF ErrExit(OrTrue(mkdir_status))
              THEN ErrExitNow(OrTrue(mkdir_status))
              ELSE pc' = Following(pc) /\ exitCode' = exitCode

\* the same test made only when no explicit header would shadow the token
CredentialsGivenUnlessShadowed(key_id, application_key) ==
    (key_id # << >> \/ application_key # << >>) /\ AUTH_HEADER = << >>

\* [ -n "$BACKBLAZE_KEY_ID" ] || [ -n "$BACKBLAZE_APPLICATION_KEY" ] (line 75)
CredentialsGiven(key_id, application_key) ==
    key_id # << >> \/ application_key # << >>

\* the same test with && for ||
CredentialsBothMissing(key_id, application_key) ==
    key_id = << >> /\ application_key = << >>

\* [ -z "$BACKBLAZE_KEY_ID" ] || [ -z "$BACKBLAZE_APPLICATION_KEY" ] (line 76)
CredentialsIncomplete(key_id, application_key) ==
    key_id = << >> \/ application_key = << >>

\* the Backblaze authorization block (lines 75-92)
MaybeAuthorize ==
    /\ pc = "authorize"
    /\ UNCHANGED <<settings, PYTHONPATH, consumed, dirUsable, files>>
    /\ IF ~CredentialsGiven(BACKBLAZE_KEY_ID, BACKBLAZE_APPLICATION_KEY)
       THEN /\ pc' = Following(pc)
            /\ UNCHANGED <<BACKBLAZE_AUTH_HEADER, BACKBLAZE_DOWNLOAD_URL,
                           exitCode, httpLog>>
       ELSE IF CredentialsIncomplete(BACKBLAZE_KEY_ID, BACKBLAZE_APPLICATION_KEY)
       THEN /\ pc' = "exited"
            /\ exitCode' = ScriptFailure
            /\ UNCHANGED <<BACKBLAZE_AUTH_HEADER, BACKBLAZE_DOWNLOAD_URL, httpLog>>
       ELSE \E outcome \in {"ok", "http_error", "transport_error"} :
            \E backblaze_auth_response \in
                   IF outcome = "ok" THEN AuthResponses ELSE {<< >>} :
            LET status == CurlExit(outcome)
                backblaze_auth_token ==
                    extract_json_field(backblaze_auth_response, "authorizationToken")
                download_url ==
                    extract_json_field(backblaze_auth_response, "downloadUrl")
            IN  /\ httpLog' = Append(httpLog,
                                     [kind    |-> "authorize",
                                      name    |-> << >>,
                                      url     |-> << >>,
                                      dest    |-> << >>,
                                      headers |-> {},
                                      outcome |-> outcome,
                                      body    |-> backblaze_auth_response])
                /\ IF ErrExit(status)
                   THEN /\ ErrExitNow(status)
                        /\ UNCHANGED <<BACKBLAZE_AUTH_HEADER, BACKBLAZE_DOWNLOAD_URL>>
                   ELSE /\ BACKBLAZE_DOWNLOAD_URL' = download_url
                        /\ IF backblaze_auth_token = << >>
                           THEN /\ pc' = "exited"
                                /\ exitCode' = ScriptFailure
                                /\ UNCHANGED BACKBLAZE_AUTH_HEADER
                           ELSE /\ pc' = Following(pc)
                                /\ exitCode' = exitCode
                                /\ BACKBLAZE_AUTH_HEADER' =
                                       AuthorizationPrefix \o backblaze_auth_token

\* fetch the main config if LITELLM_CONFIG_URL is non-empty (lines 109-111)
FetchPrimaryConfig ==
    /\ pc = "primary"
    /\ UNCHANGED <<settings, BACKBLAZE_AUTH_HEADER, BACKBLAZE_DOWNLOAD_URL,
                   PYTHONPATH, consumed, dirUsable>>
    /\ IF TestN(Expand(LITELLM_CONFIG_URL))
       THEN \E outcome \in CurlOutcomes(dirUsable) :
                fetch_file("primary", <<"LITELLM_CONFIG_URL">>,
                           Expand(LITELLM_CONFIG_URL),
                           DestPath(CONFIG_DIR, ConfigYaml), outcome, Following(pc))
       ELSE /\ pc' = Following(pc)
            /\ UNCHANGED <<exitCode, files, httpLog>>

\* one turn of a while loop (lines 114-121 and 124-131): read the next line of
\* env | grep and fetch its URL unless it is empty.  The loop is the last
\* command of a pipeline, so a failed fetch ends the pipeline with curl's
\* status and set -e ends the script with it.
LoopTurn(stage, prefix, ending, kind) ==
    /\ pc = stage
    /\ UNCHANGED <<settings, BACKBLAZE_AUTH_HEADER, BACKBLAZE_DOWNLOAD_URL,
                   PYTHONPATH, dirUsable>>
    /\ \E line \in Grep(EnvOutput, prefix) \ consumed :
           LET name == ReadNameUrl(line).name
               url  == ReadNameUrl(line).url
           IN  /\ consumed' = consumed \cup {line}
               /\ IF TestN(url)
                  THEN \E outcome \in CurlOutcomes(dirUsable) :
                           fetch_file(kind, name, url,
                                      DestPath(CONFIG_DIR,
                                               DestFilename(name, prefix, ending)),
                                      outcome, stage)
                  ELSE UNCHANGED <<pc, exitCode, files, httpLog>>

\* a loop whose input is drained behind its back: it can end with lines unread
LoopEndEarly(stage, prefix) ==
    /\ pc = stage
    /\ pc' = Following(pc)
    /\ UNCHANGED <<settings, BACKBLAZE_AUTH_HEADER, BACKBLAZE_DOWNLOAD_URL,
                   PYTHONPATH, exitCode, consumed, dirUsable, files, httpLog>>

\* the loop reads end of input and the script goes on
LoopEnd(stage, prefix) ==
    /\ pc = stage
    /\ Grep(EnvOutput, prefix) \subseteq consumed
    /\ pc' = Following(pc)
    /\ UNCHANGED <<settings, BACKBLAZE_AUTH_HEADER, BACKBLAZE_DOWNLOAD_URL,
                   PYTHONPATH, exitCode, consumed, dirUsable, files, httpLog>>

FetchAdditionalConfig == LoopTurn("configs", ConfigPrefix, YamlSuffix, "config")

AdditionalConfigsDone == LoopEnd("configs", ConfigPrefix)

FetchHandler == LoopTurn("handlers", HandlerPrefix, HandlerSuffix, "handler")

HandlersDone == LoopEnd("handlers", HandlerPrefix)

\* list the fetched files (lines 134-137): the tests of the if cannot end the
\* script, the ls -la in its body can
ListWorkingDirectory ==
    /\ pc = "list"
    /\ UNCHANGED <<settings, BACKBLAZE_AUTH_HEADER, BACKBLAZE_DOWNLOAD_URL,
                   PYTHONPATH, consumed, dirUsable, files, httpLog>>
    /\ \E listing \in {"skipped", "listed", "ls_failed"} :
           LET status == IF listing = "ls_failed" THEN LsFailure ELSE 0
           IN  IF ErrExit(status)
               THEN ErrExitNow(status)
               ELSE pc' = Following(pc) /\ exitCode' = exitCode

\* the working directory put after the search path in the place of before it
SearchPathAppended(config_dir, pythonpath) ==
    Expand(pythonpath) \o <<":">> \o config_dir

\* "${CONFIG_DIR}:${PYTHONPATH:-}" (line 140)
SearchPath(config_dir, pythonpath) ==
    config_dir \o <<":">> \o Expand(pythonpath)

\* export PYTHONPATH="${CONFIG_DIR}:${PYTHONPATH:-}" (line 140)
PrepareDownstreamEnvironment ==
    /\ pc = "pythonpath"
    /\ PYTHONPATH' = {SearchPath(CONFIG_DIR, PYTHONPATH)}
    /\ pc' = Following(pc)
    /\ UNCHANGED <<settings, BACKBLAZE_AUTH_HEADER, BACKBLAZE_DOWNLOAD_URL,
                   exitCode, consumed, dirUsable, files, httpLog>>

\* exec /app/docker/prod_entrypoint.sh "$@" (line 143); the image ships it
TransferControl ==
    /\ pc = "exec"
    /\ pc' = Following(pc)
    /\ UNCHANGED <<settings, BACKBLAZE_AUTH_HEADER, BACKBLAZE_DOWNLOAD_URL,
                   PYTHONPATH, exitCode, consumed, dirUsable, files, httpLog>>

Next ==
    \/ EnsureWorkingDirectory
    \/ MaybeAuthorize
    \/ FetchPrimaryConfig
    \/ FetchAdditionalConfig
    \/ AdditionalConfigsDone
    \/ FetchHandler
    \/ HandlersDone
    \/ ListWorkingDirectory
    \/ PrepareDownstreamEnvironment
    \/ TransferControl

Spec == Init /\ [][Next]_vars

SpecUrls == InitUrls /\ [][Next]_vars

\* a handful of environments, for the properties of whole runs
InitFew ==
    InitWith({UrlPlain},
             {<<"CONFIG_URL_", "T", "e">>, <<"HANDLER_URL_", "M", "_", "1">>},
             {{}}, {{}})

\* every statement of the script terminates, so a run that can step does
FairSpec == InitFew /\ [][Next]_vars /\ WF_vars(Next)

(***************************************************************************)
(* Vocabulary of the properties.                                           *)
(***************************************************************************)
Calls == 1..Len(httpLog)

\* the curl invocations that download an artifact
Fetches == {i \in Calls : httpLog[i].kind # "authorize"}

\* the authorization calls
AuthorizeCalls == {i \in Calls : httpLog[i].kind = "authorize"}

\* the download or the call did not end well: non-2xx, transport or write failure
Failed(i) == httpLog[i].outcome # "ok"

\* PYTHONPATH holds what line 140 builds
PythonPathPrepared ==
    \E v \in PYTHONPATH :
        /\ Len(v) > Len(CONFIG_DIR)
        /\ \A k \in 1..Len(CONFIG_DIR) : v[k] = CONFIG_DIR[k]
        /\ v[Len(CONFIG_DIR) + 1] = ":"

\* s begins with p
StartsWith(s, p) ==
    Len(s) >= Len(p) /\ \A k \in 1..Len(p) : s[k] = p[k]

\* s holds p somewhere
Contains(s, p) ==
    \E k \in 0..(Len(s) - Len(p)) : \A j \in 1..Len(p) : s[k + j] = p[j]

(***************************************************************************)
(* C1.  Fail-fast on fetch failure: a fetch that fails, wherever it stands *)
(* in the sequence primary config, CONFIG_URL_*, HANDLER_URL_*, is the     *)
(* last call of the run; the script has exited with a non-zero status,     *)
(* PYTHONPATH has not been prepared and control has not been transferred.  *)
(***************************************************************************)
C1_FailFast ==
    \A i \in Fetches :
        Failed(i) =>
            /\ i = Len(httpLog)
            /\ pc = "exited"
            /\ exitCode # 0
            /\ ~PythonPathPrepared

\* a CONFIG_URL_* fetch failed on writing after the primary config was
\* fetched, while a HANDLER_URL_* variable with a URL was still to come
C1_Witness ==
    /\ pc = "exited"
    /\ Len(httpLog) >= 2
    /\ httpLog[1].kind = "primary"
    /\ httpLog[Len(httpLog)].kind = "config"
    /\ httpLog[Len(httpLog)].outcome = "write_error"
    /\ \E l \in Grep(EnvOutput, HandlerPrefix) : ReadNameUrl(l).url # << >>

(***************************************************************************)
(* C2.  Explicit-header precedence: when AUTH_HEADER is non-empty and the  *)
(* Backblaze authorization has succeeded, every artifact fetch carries     *)
(* exactly AUTH_HEADER and never the Backblaze header, also for URLs the   *)
(* Backblaze rules match.                                                  *)
(***************************************************************************)
C2_ExplicitHeaderPrecedence ==
    (AUTH_HEADER # << >> /\ BACKBLAZE_AUTH_HEADER # << >>) =>
        \A i \in Fetches :
            /\ httpLog[i].headers = {AUTH_HEADER}
            /\ BACKBLAZE_AUTH_HEADER \notin httpLog[i].headers

\* with both headers at hand, a URL under the download URL and a URL on the
\* Backblaze domain have been fetched
C2_Witness ==
    /\ AUTH_HEADER # << >>
    /\ BACKBLAZE_AUTH_HEADER # << >>
    /\ BACKBLAZE_DOWNLOAD_URL # << >>
    /\ \E i \in Fetches : httpLog[i].url = UrlDownload /\ ~Failed(i)
    /\ \E i \in Fetches : httpLog[i].url = UrlBackblaze

(***************************************************************************)
(* C3.  Third-party header applicability, as the script has it: with no    *)
(* AUTH_HEADER and a successful Backblaze authorization, a fetch carries   *)
(* the header "Authorization: <token>" if and only if its URL begins with  *)
(* the non-empty downloadUrl followed by "/" or contains                   *)
(* "backblazeb2.com/"; every other fetch carries no header.                *)
(***************************************************************************)
C3_BackblazeHeaderApplicability ==
    (AUTH_HEADER = << >> /\ BACKBLAZE_AUTH_HEADER # << >>) =>
        \A i \in Fetches :
            IF \/ /\ BACKBLAZE_DOWNLOAD_URL # << >>
                  /\ StartsWith(httpLog[i].url, BACKBLAZE_DOWNLOAD_URL \o <<"/">>)
               \/ Contains(httpLog[i].url, <<"backblazeb2.com", "/">>)
            THEN httpLog[i].headers = {<<"Authorization: ", "t1">>}
            ELSE httpLog[i].headers = {}

\* C3 as the specification words it: the header goes to every URL under
\* the download URL and to every URL that contains the provider domain
C3_AsStated ==
    (AUTH_HEADER = << >> /\ BACKBLAZE_AUTH_HEADER # << >>) =>
        \A i \in Fetches :
            IF \/ /\ BACKBLAZE_DOWNLOAD_URL # << >>
                  /\ StartsWith(httpLog[i].url, BACKBLAZE_DOWNLOAD_URL \o <<"/">>)
               \/ Contains(httpLog[i].url, <<"backblazeb2.com">>)
            THEN httpLog[i].headers = {<<"Authorization: ", "t1">>}
            ELSE httpLog[i].headers = {}

\* one run fetched a URL under the download URL with the token and a
\* look-alike of the download URL without any header
C3_Witness ==
    /\ AUTH_HEADER = << >>
    /\ BACKBLAZE_AUTH_HEADER # << >>
    /\ \E i \in Fetches :
           /\ httpLog[i].url = UrlDownload
           /\ httpLog[i].headers = {BACKBLAZE_AUTH_HEADER}
    /\ \E i \in Fetches :
           /\ httpLog[i].url = UrlLookalike
           /\ httpLog[i].headers = {}

(***************************************************************************)
(* C4.  Inconsistent credentials: when exactly one of the resolved key id  *)
(* and the resolved application key is non-empty, the run makes no HTTP    *)
(* call at all, never gets past the credential test, and its exit status   *)
(* is non-zero.                                                            *)
(***************************************************************************)
C4_InconsistentCredentials ==
    ((BACKBLAZE_KEY_ID = << >>) # (BACKBLAZE_APPLICATION_KEY = << >>)) =>
        /\ httpLog = << >>
        /\ pc \in {"mkdir", "authorize", "exited"}
        /\ pc = "exited" => exitCode # 0

\* the script has exited on half a credential pair although there were
\* artifacts to fetch
C4_Witness ==
    /\ (BACKBLAZE_KEY_ID = << >>) # (BACKBLAZE_APPLICATION_KEY = << >>)
    /\ pc = "exited"
    /\ Expand(LITELLM_CONFIG_URL) # << >>
    /\ \E n \in DOMAIN environ : environ[n] # << >>

(***************************************************************************)
(* C5.  Missing token: when the authorization call succeeds but its body   *)
(* holds no authorizationToken string, the script has exited non-zero and  *)
(* the authorization call is the only HTTP call of the run.                *)
(***************************************************************************)
NoTokenIn(body) ==
    ~ \E k \in 1..Len(body) :
          /\ body[k].key = "authorizationToken"
          /\ body[k].str
          /\ body[k].val # << >>

C5_MissingToken ==
    \A i \in AuthorizeCalls :
        (~Failed(i) /\ NoTokenIn(httpLog[i].body)) =>
            /\ pc = "exited"
            /\ exitCode # 0
            /\ Fetches = {}

\* the endpoint answered with a body that has a downloadUrl and no token,
\* in a run that had artifacts to fetch
C5_Witness ==
    /\ pc = "exited"
    /\ \E i \in AuthorizeCalls : ~Failed(i) /\ httpLog[i].body = <<DownloadMember>>
    /\ Expand(LITELLM_CONFIG_URL) # << >>
    /\ \E n \in DOMAIN environ : environ[n] # << >>

(***************************************************************************)
(* C6.  Exhaustive enumeration, as the script has it: no variable is ever  *)
(* fetched twice, and once both loops have ended without a failure every   *)
(* CONFIG_URL_* and HANDLER_URL_* variable whose value is neither empty    *)
(* nor the single character "=" has been fetched exactly once, while a     *)
(* variable with one of these two values has not been fetched.             *)
(***************************************************************************)
FetchesOf(n) == {i \in Fetches : httpLog[i].name = n}

LoopsEnded == pc \in {"list", "pythonpath", "exec", "transferred"}

C6_ExhaustiveEnumeration ==
    \A n \in DOMAIN environ :
        /\ Cardinality(FetchesOf(n)) <= 1
        /\ LoopsEnded =>
               Cardinality(FetchesOf(n)) =
                   IF environ[n] \in {<< >>, <<"=">>} THEN 0 ELSE 1

\* C6 as the specification words it: exactly one fetch per variable,
\* whatever its value
C6_AsStated ==
    pc = "transferred" =>
        \A n \in DOMAIN environ : Cardinality(FetchesOf(n)) = 1

\* control was transferred after a CONFIG_URL_* and a HANDLER_URL_* variable
\* were fetched once each
C6_Witness ==
    /\ pc = "transferred"
    /\ \E n \in DOMAIN environ, m \in DOMAIN environ :
           /\ n[1] = "CONFIG_URL_" /\ m[1] = "HANDLER_URL_"
           /\ Cardinality(FetchesOf(n)) = 1
           /\ Cardinality(FetchesOf(m)) = 1

(***************************************************************************)
(* C7.  Naming rule: the file a CONFIG_URL_<X> variable is fetched into is *)
(* CONFIG_DIR/lowercase(X).yaml, that of HANDLER_URL_<X> is                *)
(* CONFIG_DIR/lowercase(X)_handler.py, and that of LITELLM_CONFIG_URL is   *)
(* CONFIG_DIR/config.yaml; two names that differ only in the case of X     *)
(* get the same file whatever their URLs.                                  *)
(***************************************************************************)
\* lower case of the characters the variable names of the model are made of
LowercaseLetter(c) ==
    CASE c = "C" -> "c" [] c = "E" -> "e" [] c = "F" -> "f" [] c = "G" -> "g"
      [] c = "I" -> "i" [] c = "M" -> "m" [] c = "N" -> "n" [] c = "O" -> "o"
      [] c = "T" -> "t" [] OTHER -> c

Lowercase(x) == [k \in 1..Len(x) |-> LowercaseLetter(x[k])]

\* the X of a variable name PREFIX<X>
SuffixOf(n) == [k \in 1..(Len(n) - 1) |-> n[k + 1]]

C7_NamingRule ==
    /\ \A i \in Fetches :
           LET e == httpLog[i]
           IN  CASE e.kind = "primary" ->
                      e.dest = CONFIG_DIR \o <<"/", "c", "o", "n", "f", "i", "g",
                                               ".", "y", "a", "m", "l">>
                 [] e.kind = "config" ->
                      /\ e.name \in DOMAIN environ
                      /\ e.name[1] = "CONFIG_URL_"
                      /\ e.dest = CONFIG_DIR \o <<"/">> \o Lowercase(SuffixOf(e.name))
                                     \o <<".", "y", "a", "m", "l">>
                 [] e.kind = "handler" ->
                      /\ e.name \in DOMAIN environ
                      /\ e.name[1] = "HANDLER_URL_"
                      /\ e.dest = CONFIG_DIR \o <<"/">> \o Lowercase(SuffixOf(e.name))
                                     \o <<"_", "h", "a", "n", "d", "l", "e", "r",
                                          ".", "p", "y">>
    /\ \A i \in Fetches, j \in Fetches :
           (/\ httpLog[i].kind = httpLog[j].kind
            /\ Lowercase(httpLog[i].name) = Lowercase(httpLog[j].name))
               => httpLog[i].dest = httpLog[j].dest

\* CONFIG_URL_Te and CONFIG_URL_tE were fetched from different URLs into the
\* same file, after the primary config and before a handler
C7_Witness ==
    \E i \in Fetches, j \in Fetches :
        /\ httpLog[i].name = <<"CONFIG_URL_", "T", "e">>
        /\ httpLog[j].name = <<"CONFIG_URL_", "t", "E">>
        /\ httpLog[i].url # httpLog[j].url
        /\ httpLog[i].dest = httpLog[j].dest
        /\ httpLog[1].kind = "primary"

(***************************************************************************)
(* C8.  Hand-off only when complete: when control has been transferred,    *)
(* no call of the run has failed, every line of both loops has been read,  *)
(* the primary config and every variable with a URL have been fetched and  *)
(* their files are in CONFIG_DIR; and no call is made and no file written  *)
(* after the transfer.                                                     *)
(***************************************************************************)
Fetched(kind, name, url) ==
    \E i \in Fetches :
        /\ httpLog[i].kind = kind
        /\ httpLog[i].name = name
        /\ httpLog[i].url = url
        /\ ~Failed(i)
        /\ httpLog[i].dest \in DOMAIN files

Complete ==
    /\ \A i \in Calls : ~Failed(i)
    /\ \A n \in DOMAIN environ : EnvLine(n, environ[n]) \in consumed
    /\ \A v \in LITELLM_CONFIG_URL :
           v # << >> => Fetched("primary", <<"LITELLM_CONFIG_URL">>, v)
    /\ \A n \in DOMAIN environ :
           environ[n] # << >> =>
               Fetched(IF n[1] = "CONFIG_URL_" THEN "config" ELSE "handler",
                       n, environ[n])

C8_HandOffOnlyWhenComplete ==
    /\ [](pc = "transferred" => Complete)
    /\ [][pc = "transferred" => UNCHANGED <<pc, httpLog, files>>]_vars

\* control was transferred after the primary config, a CONFIG_URL_* and a
\* HANDLER_URL_* variable were fetched
C8_Witness ==
    /\ pc = "transferred"
    /\ Len(httpLog) >= 3
    /\ \E i \in Fetches : httpLog[i].kind = "primary"
    /\ \E i \in Fetches : httpLog[i].kind = "config"
    /\ \E i \in Fetches : httpLog[i].kind = "handler"

(***************************************************************************)
(* C9.  Stage ordering: the script moves from each stage only to the next  *)
(* one of EnsureWorkingDirectory, MaybeAuthorize, FetchPrimaryConfig,      *)
(* FetchAdditionalConfigs, FetchHandlers, ListWorkingDirectory,            *)
(* PrepareDownstreamEnvironment, TransferControl, or out by exiting, and   *)
(* never back; every call is made in its own stage, so the authorization   *)
(* call comes before every fetch, the primary config before every          *)
(* CONFIG_URL_* fetch and these before every HANDLER_URL_* fetch.          *)
(***************************************************************************)
StageOrder == <<"mkdir", "authorize", "primary", "configs", "handlers", "list",
                "pythonpath", "exec", "transferred">>

StageRank(stage) == CHOOSE k \in 1..Len(StageOrder) : StageOrder[k] = stage

KindOrder == <<"authorize", "primary", "config", "handler">>

KindRank(kind) == CHOOSE k \in 1..Len(KindOrder) : KindOrder[k] = kind

CallsInOrder ==
    \A i \in Calls, j \in Calls :
        i < j =>
            /\ KindRank(httpLog[i].kind) <= KindRank(httpLog[j].kind)
            /\ httpLog[i].kind = httpLog[j].kind
                   => httpLog[i].kind \in {"config", "handler"}

StageStep ==
    /\ pc = "exited" => pc' = "exited"
    /\ pc = "transferred" => pc' = "transferred"
    /\ (pc # "exited" /\ pc' # "exited") =>
           \/ StageRank(pc') = StageRank(pc) + 1
           \/ pc' = pc /\ pc \in {"configs", "handlers"}
    /\ httpLog' # httpLog =>
           /\ Len(httpLog') = Len(httpLog) + 1
           /\ StageRank(pc) = 1 + KindRank(httpLog'[Len(httpLog')].kind)

C9_StageOrdering == []CallsInOrder /\ [][StageStep]_vars

\* one run made the authorization call and then fetched the primary config,
\* a CONFIG_URL_* and a HANDLER_URL_* variable, and transferred control
C9_Witness ==
    /\ pc = "transferred"
    /\ Len(httpLog) = 4
    /\ httpLog[1].kind = "authorize"
    /\ httpLog[2].kind = "primary"
    /\ httpLog[3].kind = "config"
    /\ httpLog[4].kind = "handler"

(***************************************************************************)
(* C10.  Exit semantics: every run comes to an end, either with control    *)
(* transferred or with the script exited, and stays there; an exited       *)
(* script has a non-zero status; and once a fatal condition has occurred   *)
(* (half a credential pair past the credential test, a failed              *)
(* authorization call, an authorization body without token, a failed       *)
(* fetch) the script has exited non-zero, so control is not transferred.   *)
(***************************************************************************)
Ended == pc \in {"transferred", "exited"}

FatalCondition ==
    \/ /\ (BACKBLAZE_KEY_ID = << >>) # (BACKBLAZE_APPLICATION_KEY = << >>)
       /\ pc \notin {"mkdir", "authorize"}
    \/ \E i \in Calls : Failed(i)
    \/ \E i \in AuthorizeCalls : NoTokenIn(httpLog[i].body)

C10_ExitSemantics ==
    /\ <>Ended
    /\ [][Ended => pc' = pc /\ exitCode' = exitCode]_vars
    /\ [](pc = "exited" => exitCode # 0)
    /\ [](FatalCondition => pc = "exited" /\ exitCode # 0)

\* the script has exited with status 1 on half a credential pair
C10_Witness ==
    /\ pc = "exited"
    /\ exitCode = 1
    /\ BACKBLAZE_KEY_ID # << >>
    /\ BACKBLAZE_APPLICATION_KEY = << >>
    /\ httpLog = << >>

(***************************************************************************)
(* C11.  Module search path: once the script is at its exec or has         *)
(* transferred control, PYTHONPATH is CONFIG_DIR, a colon, and after it    *)
(* exactly the value PYTHONPATH had when the script started (nothing when  *)
(* it was unset or empty); until line 140 the start value is untouched.    *)
(***************************************************************************)
C11_ModuleSearchPath ==
    /\ pc \in {"exec", "transferred"} =>
           \E v \in PYTHONPATH :
               /\ PYTHONPATH = {v}
               /\ StartsWith(v, CONFIG_DIR \o <<":">>)
               /\ \A old \in startPYTHONPATH :
                      SubSeq(v, Len(CONFIG_DIR) + 2, Len(v)) = old
               /\ startPYTHONPATH = {} => Len(v) = Len(CONFIG_DIR) + 1
    /\ pc \in {"mkdir", "authorize", "primary", "configs", "handlers",
               "list", "pythonpath"} =>
           PYTHONPATH = startPYTHONPATH

C11_Witness ==
    /\ pc = "transferred"
    /\ startPYTHONPATH = {<<"/p">>}
    /\ CONFIG_DIR = <<"/d">>
    /\ PYTHONPATH = {<<"/d", ":", "/p">>}

(***************************************************************************)
(* C12.  Last-processed-wins: when control has been transferred, every     *)
(* variable with a URL has been fetched, also those whose destination is   *)
(* the destination of another, and the file at each destination holds the  *)
(* body of the fetch made last for it.                                     *)
(***************************************************************************)
\* the last fetch of the run that wrote to dest
LastFetchTo(dest) ==
    CHOOSE i \in Fetches :
        /\ httpLog[i].dest = dest
        /\ \A j \in Fetches : httpLog[j].dest = dest => j <= i

C12_LastProcessedWins ==
    pc = "transferred" =>
        /\ \A v \in LITELLM_CONFIG_URL :
               v # << >> => FetchesOf(<<"LITELLM_CONFIG_URL">>) # {}
        /\ \A n \in DOMAIN environ :
               ReadNameUrl(EnvLine(n, environ[n])).url # << >> =>
                   FetchesOf(n) # {}
        /\ \A i \in Fetches :
               /\ httpLog[i].dest \in DOMAIN files
               /\ files[httpLog[i].dest] =
                      httpLog[LastFetchTo(httpLog[i].dest)].url

C12_Witness ==
    /\ pc = "transferred"
    /\ \E i, j \in Fetches :
           /\ i < j
           /\ httpLog[i].dest = httpLog[j].dest
           /\ httpLog[i].url # httpLog[j].url
           /\ files[httpLog[j].dest] = httpLog[j].url

(***************************************************************************)
(* C13.  Destination confinement: when every CONFIG_URL_* / HANDLER_URL_*  *)
(* name is made of letters, digits and underscores, every fetch writes to  *)
(* CONFIG_DIR, a slash, and a file name that holds no slash and is not     *)
(* "..", and every file written lies at such a path.                       *)
(***************************************************************************)
\* the characters [A-Za-z0-9_]
NameCharacters ==
    {Upper[k] : k \in 1..Len(Upper)} \cup {Lower[k] : k \in 1..Len(Lower)}
        \cup {"0", "1", "2", "3", "4", "5", "6", "7", "8", "9", "_"}

SafeName(n) ==
    \A k \in 2..Len(n) : n[k] \in NameCharacters

\* path is dir, a slash, and one file name
DirectlyInside(path, dir) ==
    /\ StartsWith(path, dir \o <<"/">>)
    /\ LET filename == SubSeq(path, Len(dir) + 2, Len(path))
       IN  /\ filename # << >>
           /\ filename # <<".", ".">>
           /\ \A k \in 1..Len(filename) : filename[k] # "/"

C13_DestinationConfinement ==
    (\A n \in DOMAIN environ : SafeName(n)) =>
        /\ \A i \in Fetches : DirectlyInside(httpLog[i].dest, CONFIG_DIR)
        /\ \A path \in DOMAIN files : DirectlyInside(path, CONFIG_DIR)

C13_Witness ==
    /\ pc = "transferred"
    /\ CONFIG_DIR = <<"/d">>
    /\ \E n \in DOMAIN environ : n[1] = "CONFIG_URL_" /\ FetchesOf(n) # {}
    /\ \E n \in DOMAIN environ : n[1] = "HANDLER_URL_" /\ FetchesOf(n) # {}
    /\ Cardinality(DOMAIN files) = 2

(***************************************************************************)
(* C14.  Optional primary config: with LITELLM_CONFIG_URL unset or empty   *)
(* no fetch is made for it and the script goes on to the CONFIG_URL_*      *)
(* loop with nothing changed; with a non-empty value exactly one fetch of  *)
(* that URL to CONFIG_DIR/config.yaml has been made once the script is     *)
(* past line 111; and from the primary fetch to the end of the two loops   *)
(* the script ends only with a fetch that failed, so that it reaches the   *)
(* listing step when every fetch succeeds.                                 *)
(***************************************************************************)
PrimaryFetches == {i \in Fetches : httpLog[i].kind = "primary"}

PastPrimary ==
    pc \in {"configs", "handlers", "list", "pythonpath", "exec", "transferred"}

\* the step taken ends the script with a call that failed
EndsOnFailedCall ==
    /\ Len(httpLog') = Len(httpLog) + 1
    /\ httpLog'[Len(httpLog')].outcome # "ok"
    /\ exitCode' # 0

C14_OptionalPrimaryConfig ==
    /\ [](Expand(LITELLM_CONFIG_URL) = << >> => PrimaryFetches = {})
    /\ []((Expand(LITELLM_CONFIG_URL) # << >> /\ PastPrimary) =>
             \E i \in PrimaryFetches :
                 /\ PrimaryFetches = {i}
                 /\ httpLog[i].url = Expand(LITELLM_CONFIG_URL)
                 /\ httpLog[i].dest = CONFIG_DIR \o <<"/">> \o ConfigYaml)
    /\ [](Cardinality(PrimaryFetches) <= 1)
    /\ [][(pc = "primary" /\ Expand(LITELLM_CONFIG_URL) = << >>) =>
             (pc' = "configs" /\ exitCode' = exitCode /\ httpLog' = httpLog)]_vars
    /\ [][(pc \in {"primary", "configs", "handlers"} /\ pc' = "exited") =>
             EndsOnFailedCall]_vars

\* C14 as the specification words it: a fetch of config.yaml whenever the
\* variable is set, and control transferred whenever the fetches succeed
C14_AsStated ==
    /\ LITELLM_CONFIG_URL = {} => PrimaryFetches = {}
    /\ (LITELLM_CONFIG_URL # {} /\ PastPrimary) =>
           Cardinality(PrimaryFetches) = 1
    /\ (LITELLM_CONFIG_URL = {} /\ pc = "exited") => FatalCondition

C14_Witness ==
    /\ pc = "transferred"
    /\ LITELLM_CONFIG_URL = {<< >>}
    /\ PrimaryFetches = {}
    /\ \E i, j \in Fetches : httpLog[i].kind = "config" /\ httpLog[j].kind = "handler"

(***************************************************************************)
(* C15.  Authorization is conditional and one-time: a run holds at most    *)
(* one authorization call, and holds one only when a credential half is    *)
(* present; with neither half present there is no authorization call, the  *)
(* Backblaze header stays empty and no fetch, whatever its URL, carries an *)
(* Authorization header.                                                   *)
(***************************************************************************)
NoCredentials ==
    BACKBLAZE_KEY_ID = << >> /\ BACKBLAZE_APPLICATION_KEY = << >>

C15_ConditionalOneTimeAuthorization ==
    /\ Cardinality(AuthorizeCalls) <= 1
    /\ AuthorizeCalls # {} =>
           (BACKBLAZE_KEY_ID # << >> \/ BACKBLAZE_APPLICATION_KEY # << >>)
    /\ NoCredentials =>
           /\ AuthorizeCalls = {}
           /\ BACKBLAZE_AUTH_HEADER = << >>
           /\ \A i \in Fetches : \A h \in httpLog[i].headers :
                  h = AUTH_HEADER /\ ~StartsWith(h, AuthorizationPrefix)

C15_Witness ==
    /\ pc = "transferred"
    /\ NoCredentials
    /\ AUTH_HEADER = << >>
    /\ \E i \in Fetches :
           /\ httpLog[i].url = UrlBackblaze
           /\ httpLog[i].headers = {}
           /\ ~Failed(i)

(***************************************************************************)
(* C16.  Authorization transport failure is fatal: an authorization call   *)
(* that failed (transport error or non-2xx) was made with both credential  *)
(* halves present, is the only call of the run, and has ended the script   *)
(* with a non-zero status; from then on the script takes no step: no       *)
(* retry, no fetch, no transfer of control.                                *)
(***************************************************************************)
AuthorizationFailed == \E i \in AuthorizeCalls : Failed(i)

C16_AuthorizationFailureFatal ==
    /\ [](AuthorizationFailed =>
             /\ BACKBLAZE_KEY_ID # << >> /\ BACKBLAZE_APPLICATION_KEY # << >>
             /\ Len(httpLog) = 1
             /\ Fetches = {}
             /\ files = NoFiles
             /\ pc = "exited"
             /\ exitCode # 0)
    /\ [][~AuthorizationFailed]_vars

C16_Witness ==
    /\ pc = "exited"
    /\ exitCode = CurlCouldNotConnect
    /\ \E i \in AuthorizeCalls : httpLog[i].outcome = "transport_error"
    /\ \E n \in DOMAIN environ : environ[n] # << >>

(***************************************************************************)
(* C17.  Diagnostic listing is non-fatal: whatever happens in the listing  *)
(* step (no directory, an empty directory, a listing command that fails),  *)
(* the step never ends the script: its next statement is the export of     *)
(* PYTHONPATH, and the exec follows.                                       *)
(***************************************************************************)
C17_ListingNonFatal ==
    [][pc = "list" => (pc' = "pythonpath" /\ exitCode' = exitCode)]_vars

\* a run whose calls all succeeded and which the listing step has ended
C17_ListingAborts ==
    /\ pc = "exited"
    /\ exitCode = LsFailure
    /\ Fetches # {}
    /\ \A i \in Calls : ~Failed(i)
    /\ \A n \in DOMAIN environ : FetchesOf(n) # {}
    /\ PYTHONPATH = startPYTHONPATH

(***************************************************************************)
(* C18.  Best-effort directory creation: the mkdir step never ends the     *)
(* script, whether mkdir could create CONFIG_DIR or not: authorization is  *)
(* the next statement.  A fetch whose file could not be written is the     *)
(* last call of the run and has ended the script with a non-zero status;   *)
(* when the directory is not usable no fetch succeeds, so that the first   *)
(* fetch is the only one and nothing is written.                           *)
(***************************************************************************)
WriteFailed(i) == httpLog[i].outcome = "write_error"

C18_BestEffortDirectory ==
    /\ [][pc = "mkdir" => (pc' = "authorize" /\ exitCode' = exitCode)]_vars
    /\ [](\A i \in Fetches :
             WriteFailed(i) =>
                 /\ i = Len(httpLog)
                 /\ pc = "exited"
                 /\ exitCode = CurlWriteError)
    /\ []((~dirUsable /\ Fetches # {}) =>
             /\ Cardinality(Fetches) = 1
             /\ \A i \in Fetches : Failed(i)
             /\ files = NoFiles
             /\ pc = "exited"
             /\ exitCode # 0)
    /\ [](pc = "transferred" => \A i \in Fetches : httpLog[i].dest \in DOMAIN files)

C18_Witness ==
    /\ ~dirUsable
    /\ pc = "exited"
    /\ exitCode = CurlWriteError
    /\ BACKBLAZE_AUTH_HEADER # << >>
    /\ \E i \in Fetches : WriteFailed(i)

(***************************************************************************)
(* C19.  Authorization is not skipped when its result is unused: with both *)
(* credential halves present, a script past the authorization block has    *)
(* made exactly one authorization call, whatever AUTH_HEADER and the       *)
(* artifact variables are; and if that call failed or its answer held no   *)
(* token, the script has ended with a non-zero status and no fetch made.   *)
(***************************************************************************)
BothCredentials ==
    BACKBLAZE_KEY_ID # << >> /\ BACKBLAZE_APPLICATION_KEY # << >>

C19_AuthorizationNotSkipped ==
    BothCredentials =>
        /\ pc \notin {"mkdir", "authorize"} => Cardinality(AuthorizeCalls) = 1
        /\ \A i \in AuthorizeCalls :
               (Failed(i) \/ NoTokenIn(httpLog[i].body)) =>
                   /\ pc = "exited"
                   /\ exitCode # 0
                   /\ Fetches = {}
                   /\ PYTHONPATH = startPYTHONPATH

\* the token would serve no fetch: an explicit header is set and there is no
\* artifact variable at all
C19_Witness ==
    /\ BothCredentials
    /\ AUTH_HEADER = ExplicitHeader
    /\ DOMAIN environ = {}
    /\ Expand(LITELLM_CONFIG_URL) = << >>
    /\ pc = "exited"
    /\ \E i \in AuthorizeCalls : ~Failed(i) /\ NoTokenIn(httpLog[i].body)

(***************************************************************************)
(* C20.  The third-party token is never sent to a look-alike URL: a fetch  *)
(* that carries the Backblaze header although its URL does not contain     *)
(* "backblazeb2.com/" was made with a non-empty downloadUrl and a URL that *)
(* begins with that downloadUrl followed by "/"; and a fetch whose URL     *)
(* begins with downloadUrl without the "/" after it (the downloadUrl       *)
(* itself included) and does not contain "backblazeb2.com/" carries no     *)
(* Authorization header.                                                   *)
(***************************************************************************)
HasProviderDomain(url) == Contains(url, <<"backblazeb2.com", "/">>)

CarriesToken(i) ==
    \E h \in httpLog[i].headers : StartsWith(h, AuthorizationPrefix)

C20_NoTokenToLookalike ==
    BACKBLAZE_AUTH_HEADER # << >> =>
        \A i \in Fetches :
            LET url == httpLog[i].url
            IN  /\ (CarriesToken(i) /\ ~HasProviderDomain(url)) =>
                       /\ BACKBLAZE_DOWNLOAD_URL # << >>
                       /\ StartsWith(url, BACKBLAZE_DOWNLOAD_URL \o <<"/">>)
                /\ (/\ StartsWith(url, BACKBLAZE_DOWNLOAD_URL)
                    /\ ~StartsWith(url, BACKBLAZE_DOWNLOAD_URL \o <<"/">>)
                    /\ ~HasProviderDomain(url)) =>
                       ~CarriesToken(i)

\* the download URL itself and a look-alike of it, both fetched with the
\* token at hand and neither given it
C20_Witness ==
    /\ AUTH_HEADER = << >>
    /\ BACKBLAZE_AUTH_HEADER = AuthorizationPrefix \o AuthToken
    /\ BACKBLAZE_DOWNLOAD_URL = DownloadUrl
    /\ \E i, j \in Fetches :
           /\ httpLog[i].url = UrlDownloadBase
           /\ httpLog[i].headers = {}
           /\ httpLog[j].url = UrlLookalike
           /\ httpLog[j].headers = {}

(***************************************************************************)
(* C21.  Empty-valued variables are skipped silently: no fetch is ever     *)
(* made for a CONFIG_URL_* / HANDLER_URL_* variable whose value is empty,  *)
(* nor for an empty LITELLM_CONFIG_URL, and every file written is the      *)
(* destination of a fetch that was made; the step that reads such a        *)
(* variable changes neither the call log, the files nor the exit status    *)
(* and leaves the script running; and once the loops have ended every      *)
(* variable with a URL has been fetched.                                   *)
(***************************************************************************)
EmptyValued == {n \in DOMAIN environ : environ[n] = << >>}

\* the step taken is the loop reading the line of an empty-valued variable
ReadsEmptyValued ==
    \E n \in EmptyValued :
        /\ EnvLine(n, environ[n]) \notin consumed
        /\ EnvLine(n, environ[n]) \in consumed'

Untouched ==
    /\ httpLog' = httpLog
    /\ files' = files
    /\ exitCode' = exitCode
    /\ pc' # "exited"

C21_EmptyValuesSkipped ==
    /\ [](\A n \in EmptyValued : FetchesOf(n) = {})
    /\ [](LITELLM_CONFIG_URL = {<< >>} => PrimaryFetches = {})
    /\ [](DOMAIN files \subseteq {httpLog[i].dest : i \in Fetches})
    /\ [][ReadsEmptyValued => (Untouched /\ pc' = pc)]_vars
    /\ [][(pc = "primary" /\ LITELLM_CONFIG_URL = {<< >>}) =>
              (Untouched /\ pc' = "configs")]_vars
    /\ [](LoopsEnded =>
             \A n \in DOMAIN environ \ EmptyValued :
                 ReadNameUrl(EnvLine(n, environ[n])).url # << >> =>
                     Cardinality(FetchesOf(n)) = 1)

\* control was transferred in an environment with an empty primary URL, an
\* empty-valued variable and a variable with a URL, the last one alone fetched
C21_Witness ==
    /\ pc = "transferred"
    /\ LITELLM_CONFIG_URL = {<< >>}
    /\ EmptyValued # {}
    /\ \E n \in DOMAIN environ \ EmptyValued : FetchesOf(n) # {}
    /\ Len(httpLog) = 1
    /\ Cardinality(DOMAIN files) = 1

(***************************************************************************)
(* The dashboard's page: failing API calls hand their error text to        *)
(* handleError without awaiting it (throw s(e), Error(...)), so that calls *)
(* of handleError interleave at its await.  JavaScript runs each call up   *)
(* to the await, and from the await to the end, without interruption.      *)
(***************************************************************************)
ExpiredKeyText == "Authentication Error - Expired Key"

\* error texts of failed API calls: one of an expired key, one unrelated
ErrorTexts ==
    {<<"{\"error\": \"", "Authentication Error - Expired Key", "\"}">>,
     <<"Internal Server Error">>}

\* e.includes("Authentication Error - Expired Key")
Includes(e, text) == \E k \in 1..Len(e) : e[k] = text

\* clock advances the model takes: a millisecond, the wait, the throttle period
TickSteps == {1, LogoutDelay, Throttle}

\* the entrypoint script has handed over to the process that serves the page
ScriptTransferred ==
    /\ CONFIG_DIR = DefaultConfigDir
    /\ AUTH_HEADER = << >>
    /\ BACKBLAZE_KEY_ID = << >>
    /\ BACKBLAZE_APPLICATION_KEY = << >>
    /\ BACKBLAZE_AUTH_HEADER = << >>
    /\ BACKBLAZE_DOWNLOAD_URL = << >>
    /\ LITELLM_CONFIG_URL = {}
    /\ startPYTHONPATH = {}
    /\ PYTHONPATH = {SearchPath(DefaultConfigDir, {})}
    /\ environ = << >>
    /\ pc = "transferred"
    /\ exitCode = 0
    /\ consumed = {}
    /\ dirUsable = TRUE
    /\ files = NoFiles
    /\ httpLog = << >>

InitDashboard == ScriptTransferred /\ PageLoaded

\* s(e) from its call to its await, or to its end when it does not await
handleError(e) ==
    /\ pageAlive
    /\ arrived < MaxErrors
    /\ arrived' = arrived + 1
    /\ LET t == now
       IN  IF t - lastErrorTime > Throttle
           THEN /\ lastHandled' = t
                /\ lastErrorTime' = t
                /\ IF Includes(e, ExpiredKeyText)
                   THEN /\ notices' = Append(notices, t)
                        /\ waiting' = Append(waiting, t)
                   ELSE UNCHANGED <<notices, waiting>>
           ELSE UNCHANGED <<lastHandled, lastErrorTime, notices, waiting>>
    /\ UNCHANGED <<script, now, tokenCookie, location, pageAlive, ticks>>

\* s(e) from its await to its end: the timer of sleep(3000) fires no sooner
\* than 3000 ms after it was set, the earliest timer first, and the call
\* goes on with the t it took before the wait
handleErrorResumes ==
    /\ pageAlive
    /\ waiting # << >>
    /\ now >= Head(waiting) + LogoutDelay
    /\ tokenCookie' = "cleared"
    /\ location' = "/"
    /\ lastErrorTime' = Head(waiting)
    /\ waiting' = Tail(waiting)
    /\ UNCHANGED <<script, now, notices, pageAlive, lastHandled, arrived, ticks>>

\* the navigation that window.location.href = "/" began replaces the document
PageUnloads ==
    /\ pageAlive
    /\ location = "/"
    /\ pageAlive' = FALSE
    /\ UNCHANGED <<script, now, lastErrorTime, waiting, notices, tokenCookie,
                   location, lastHandled, arrived, ticks>>

\* time passes
Tick ==
    /\ pageAlive
    /\ ticks < MaxTicks
    /\ ticks' = ticks + 1
    /\ \E d \in TickSteps : now' = now + d
    /\ UNCHANGED <<script, lastErrorTime, waiting, notices, tokenCookie,
                   location, pageAlive, lastHandled, arrived>>

HandleAnError == \E e \in ErrorTexts : handleError(e)

NextDashboard ==
    \/ HandleAnError
    \/ handleErrorResumes
    \/ PageUnloads
    \/ Tick

SpecDashboard == InitDashboard /\ [][NextDashboard]_vars

(***************************************************************************)
(* C22.  Dashboard client error throttle: the notices of any two logouts   *)
(* are more than 60 s apart, whatever the interleaving of failing calls;   *)
(* and an error that arrives less than 60 s after the last error that was  *)
(* not suppressed is suppressed: it shows no notice, starts no logout and  *)
(* leaves lastErrorTime as it is.                                          *)
(***************************************************************************)
C22_ErrorThrottle ==
    /\ [](\A i, j \in DOMAIN notices :
             i < j => notices[j] - notices[i] > Throttle)
    /\ [][(arrived' = arrived + 1 /\ lastHandled # 0
             /\ now - lastHandled < Throttle) =>
              (/\ lastErrorTime' = lastErrorTime
               /\ notices' = notices
               /\ waiting' = waiting)]_vars

\* two logout notices less than 60 s apart on one page
C22_TwoLogoutsInWindow ==
    \E i, j \in DOMAIN notices :
        /\ i < j
        /\ notices[j] - notices[i] < Throttle
        /\ pageAlive

====
